---- MODULE Spec2Model ----
(***************************************************************************)
(* Model of the two Databricks analyzers:                                  *)
(*   src/monitoring/cost-optimization/cost-analyzer.py                     *)
(*   src/security/tools/databricks-security-scanner.py                     *)
(*                                                                         *)
(* Python dicts are functions whose DOMAIN is the set of keys present, so  *)
(* that dict.get(key, default) is Get below.  Strings that the code        *)
(* searches with `in` or lower-cases are sequences of one-character        *)
(* strings; strings only compared for equality are TLA+ strings.           *)
(* Money is kept in whole dollars: every estimate of the code is           *)
(* rate * (n + 1) * 720 * 0.3 with rate a multiple of 0.5, i.e. a          *)
(* multiple of 108, and IEEE doubles compute these products and their      *)
(* sums exactly.  Hourly rates are kept in half dollars.                    *)
(***************************************************************************)
EXTENDS Integers, Sequences, FiniteSets, TLC

VARIABLES
    cluster,            \* the cluster dict handed to the per-cluster functions
    issues,             \* result of analyze_cluster_configuration(cluster)
    savings,            \* result of estimate_cluster_savings(cluster)
    applied,            \* which per-cluster functions have been applied
    now,                \* datetime.now().timestamp()
    clusters_response,  \* what GET /api/2.0/clusters/list produces
    jobs_response,      \* what GET /api/2.0/jobs/list produces
    fetches,            \* security scanner: outcome of the fetch of each check
    report,             \* the report of the latest run
    prev_report,        \* the report of the run before it
    runs                \* number of runs of the analyzer so far

vars == <<cluster, issues, savings, applied, now, clusters_response,
          jobs_response, fetches, report, prev_report, runs>>

-----------------------------------------------------------------------------
(* Bounds of the model *)

MaxWorkers == 12
MaxClusters == 2
MaxRuns == 2
StartTime == 7200

-----------------------------------------------------------------------------
(* Python helpers *)

Upper == <<"A","B","C","D","E","F","G","H","I","J","K","L","M","N","O","P","Q","R","S","T","U","V","W","X","Y","Z">>
LowerLetters == <<"a","b","c","d","e","f","g","h","i","j","k","l","m","n","o","p","q","r","s","t","u","v","w","x","y","z">>

\* str.lower()
ToLower == [c \in {Upper[i] : i \in 1..Len(Upper)} |->
                LowerLetters[CHOOSE i \in 1..Len(Upper) : Upper[i] = c]]
LowerChar(c) == IF c \in DOMAIN ToLower THEN ToLower[c] ELSE c
lower(s) == [i \in 1..Len(s) |-> LowerChar(s[i])]

\* sub in s, for strings
Contains(sub, s) ==
    \E i \in 0..(Len(s) - Len(sub)) : \A j \in 1..Len(sub) : s[i + j] = sub[j]

\* x in xs, for lists
InList(x, xs) == \E i \in 1..Len(xs) : xs[i] = x

\* key in d
Has(c, key) == key \in DOMAIN c

\* d.get(key, default)
Get(d, key, default) == IF key \in DOMAIN d THEN d[key] ELSE default

\* the empty dict {} and the truth value of a dict or list
EmptyDict == <<>>
Truthy(d) == DOMAIN d # {}

RECURSIVE SumSeq(_)
SumSeq(s) == IF s = <<>> THEN 0 ELSE Head(s) + SumSeq(Tail(s))

-----------------------------------------------------------------------------
(* Input domains *)

Absent == <<>>     \* a dict fragment contributing no key

NodeTypes == {
    <<"S","t","a","n","d","a","r","d","_","D","S","3","_","v","2">>,
    <<"S","t","a","n","d","a","r","d","_","F","4","_","l","a","r","g","e">>,
    <<"i","3",".","x","l","a","r","g","e">>,
    <<"r","5",".","2","X","L","A","R","G","E">>,
    <<"t","3",".","s","m","a","l","l">>,
    <<"t","3",".","m","e","d","i","u","m">>,
    <<"g","4",".","G","P","U">>,
    <<"g","p","u",".","s","m","a","l","l">> }

Standard_DS3_v2 == <<"S","t","a","n","d","a","r","d","_","D","S","3","_","v","2">>
Standard_F4_large == <<"S","t","a","n","d","a","r","d","_","F","4","_","l","a","r","g","e">>

SparkVersions == {
    <<"9",".","1",".","x","-","s","c","a","l","a","2",".","1","2">>,
    <<"1","2",".","2",".","x","-","s","c","a","l","a","2",".","1","2">> }

WorkerCounts == {0} \cup (9..MaxWorkers)
\* clock readings: at, just after and later than the idle window of ActivityOpts
Times == {StartTime, StartTime + 1, StartTime + 2}

NodeTypeOpts == {Absent} \cup {"node_type_id" :> t : t \in NodeTypes}
WorkerOpts == {Absent} \cup {"num_workers" :> n : n \in WorkerCounts}
AutoscaleOpts == {Absent, "autoscale" :> EmptyDict,
                  "autoscale" :> [min_workers |-> 2, max_workers |-> 20]}
AutoTermOpts == {Absent} \cup {"autotermination_minutes" :> m : m \in {0, 60, 120, 121}}
SparkOpts == {Absent} \cup {"spark_version" :> v : v \in SparkVersions}
StateOpts == {Absent} \cup {"state" :> s : s \in {"RUNNING", "PENDING", "RESTARTING"}}
ActivityOpts == {Absent, "last_activity_time" :> (StartTime - 3600)}

\* every combination of the fields the cost rules read
ClusterConfigs ==
    {a @@ b @@ c @@ d @@ e @@ f @@ g :
        a \in NodeTypeOpts, b \in WorkerOpts, c \in AutoscaleOpts,
        d \in AutoTermOpts, e \in SparkOpts, f \in StateOpts, g \in ActivityOpts}

-----------------------------------------------------------------------------
(* cost-analyzer.py: per-cluster rules *)

\* the issue strings of analyze_cluster_configuration
NoAutoTermination == "No auto-termination configured"
LongAutoTermination == "Long auto-termination period"

\* "Check auto-termination"
auto_termination_issues_ge(c) ==
    LET auto_termination == Get(c, "autotermination_minutes", 0)
    IN  IF auto_termination = 0 THEN <<NoAutoTermination>>
        ELSE IF auto_termination >= 120 THEN <<LongAutoTermination>>
        ELSE <<>>
auto_termination_issues(c) ==
    LET auto_termination == Get(c, "autotermination_minutes", 0)
    IN  IF auto_termination = 0 THEN <<NoAutoTermination>>
        ELSE IF auto_termination > 120 THEN <<LongAutoTermination>>
        ELSE <<>>

\* "Check cluster size"
cluster_size_issues_no_autoscale_test(c) ==
    LET num_workers == Get(c, "num_workers", 0)
    IN  IF num_workers > 10 THEN <<"oversized">> ELSE <<>>
cluster_size_issues(c) ==
    LET num_workers == Get(c, "num_workers", 0)
        autoscale == Get(c, "autoscale", EmptyDict)
    IN  IF ~Truthy(autoscale) /\ num_workers > 10 THEN <<"oversized">> ELSE <<>>

\* "Check for expensive instance types"
instance_type_issues(c) ==
    LET node_type == Get(c, "node_type_id", <<>>)
        lowered == lower(node_type)
    IN  IF \E expensive_type \in {<<"l","a","r","g","e">>, <<"x","l","a","r","g","e">>,
                                  <<"g","p","u">>} :
              Contains(expensive_type, lowered)
        THEN <<"expensive_instance_type">> ELSE <<>>

\* "Check runtime version"
runtime_issues(c) ==
    LET runtime_version == Get(c, "spark_version", <<>>)
    IN  IF ~ \E version \in {<<"1","0",".">>, <<"1","1",".">>, <<"1","2",".">>} :
              Contains(version, runtime_version)
        THEN <<"outdated_runtime">> ELSE <<>>

\* "Check cluster state", at clock value t
cluster_state_issues_longer_window(c, t) ==
    LET state == Get(c, "state", "")
    IN  IF state \in {"PENDING", "RESTARTING"}
           /\ Get(c, "last_activity_time", 0) < t - 3601
        THEN <<"idle">> ELSE <<>>
cluster_state_issues(c, t) ==
    LET state == Get(c, "state", "")
    IN  IF state \in {"PENDING", "RESTARTING"}
           /\ Get(c, "last_activity_time", 0) < t - 3600
        THEN <<"idle">> ELSE <<>>

\* analyze_cluster_configuration(cluster), evaluated at clock value t
analyze_cluster_configuration(c, t) ==
    auto_termination_issues(c) \o cluster_size_issues(c) \o instance_type_issues(c)
        \o runtime_issues(c) \o cluster_state_issues(c, t)

\* base_cost_per_hour, in dict order, with the rate in half dollars
base_cost_per_hour_xlarge_first == <<
    [category |-> <<"s","m","a","l","l">>, rate |-> 1],
    [category |-> <<"m","e","d","i","u","m">>, rate |-> 2],
    [category |-> <<"x","l","a","r","g","e">>, rate |-> 8],
    [category |-> <<"l","a","r","g","e">>, rate |-> 4],
    [category |-> <<"g","p","u">>, rate |-> 16] >>
base_cost_per_hour == <<
    [category |-> <<"s","m","a","l","l">>, rate |-> 1],
    [category |-> <<"m","e","d","i","u","m">>, rate |-> 2],
    [category |-> <<"l","a","r","g","e">>, rate |-> 4],
    [category |-> <<"x","l","a","r","g","e">>, rate |-> 8],
    [category |-> <<"g","p","u">>, rate |-> 16] >>

\* the for/break loop over base_cost_per_hour.keys(), from entry i on
RECURSIVE cost_category(_, _)
cost_category(node_type, i) ==
    IF i > Len(base_cost_per_hour) THEN 2
    ELSE IF Contains(base_cost_per_hour[i].category, lower(node_type)) THEN i
    ELSE cost_category(node_type, i + 1)

\* estimate_cluster_savings(cluster), in dollars
estimate_cluster_savings_no_driver(c) ==
    LET num_workers == Get(c, "num_workers", 0)
        node_type == Get(c, "node_type_id", <<>>)
        hourly_cost == base_cost_per_hour[cost_category(node_type, 1)].rate * num_workers
    IN  (hourly_cost * 720 * 3) \div 20
estimate_cluster_savings(c) ==
    LET num_workers == Get(c, "num_workers", 0)
        node_type == Get(c, "node_type_id", <<>>)
        hourly_cost == base_cost_per_hour[cost_category(node_type, 1)].rate * (num_workers + 1)
    IN  (hourly_cost * 720 * 3) \div 20

Unset == <<"unset">>

-----------------------------------------------------------------------------
(* SpecCluster: the per-cluster functions applied to any cluster config *)

InitCluster ==
    /\ cluster \in ClusterConfigs
    /\ now \in Times
    /\ issues = Unset
    /\ savings = -1
    /\ applied = {}
    /\ clusters_response = <<>>
    /\ jobs_response = <<>>
    /\ fetches = <<>>
    /\ report = <<>>
    /\ prev_report = <<>>
    /\ runs = 0

AnalyzeClusterConfiguration ==
    /\ "analyze_cluster_configuration" \notin applied
    /\ issues' = analyze_cluster_configuration(cluster, now)
    /\ applied' = applied \cup {"analyze_cluster_configuration"}
    /\ UNCHANGED <<cluster, savings, now, clusters_response, jobs_response,
                   fetches, report, prev_report, runs>>

EstimateClusterSavings ==
    /\ "estimate_cluster_savings" \notin applied
    /\ savings' = estimate_cluster_savings(cluster)
    /\ applied' = applied \cup {"estimate_cluster_savings"}
    /\ UNCHANGED <<cluster, issues, now, clusters_response, jobs_response,
                   fetches, report, prev_report, runs>>

NextCluster == AnalyzeClusterConfiguration \/ EstimateClusterSavings

SpecCluster == InitCluster /\ [][NextCluster]_vars

-----------------------------------------------------------------------------
(* cost-analyzer.py: HTTP responses *)

\* session.get(...) either raises or returns a response; response.json()
\* raises on a body that is not JSON
Raises(message) == [kind |-> "raise", message |-> message]
Response(status_code, body) ==
    [kind |-> "response", status_code |-> status_code, is_json |-> TRUE, body |-> body]
NotJsonResponse(status_code) ==
    [kind |-> "response", status_code |-> status_code, is_json |-> FALSE, body |-> EmptyDict]

JsonError == "Expecting value: line 1 column 1 (char 0)"

-----------------------------------------------------------------------------
(* cost-analyzer.py: cluster analysis *)

\* one entry of a group of analyze_cluster_utilization
ClusterEntry(c, t) ==
    [name |-> Get(c, "cluster_name", "Unknown"),
     id |-> Get(c, "cluster_id", "None"),
     issues |-> analyze_cluster_configuration(c, t),
     potential_savings |-> estimate_cluster_savings(c)]

\* the entries appended to the group guarded by `tag in issues`, in list order
RECURSIVE GroupOf(_, _, _)
GroupOf(clusters, tag, t) ==
    IF clusters = <<>> THEN <<>>
    ELSE LET c == Head(clusters)
             found == analyze_cluster_configuration(c, t)
         IN  (IF Truthy(found) /\ InList(tag, found) THEN <<ClusterEntry(c, t)>> ELSE <<>>)
                 \o GroupOf(Tail(clusters), tag, t)

Potentials(group) == [i \in 1..Len(group) |-> Get(group[i], "potential_savings", 0)]

\* "Calculate total optimization potential"
cost_optimization_potential_once_per_cluster(under, over, idle) ==
    LET all == under \o over \o idle
    IN  SumSeq([i \in 1..Len(all) |->
                   IF \E j \in 1..(i - 1) : all[j].id = all[i].id
                   THEN 0 ELSE Get(all[i], "potential_savings", 0)])
cost_optimization_potential(under, over, idle) ==
    SumSeq(<<SumSeq(Potentials(under)), SumSeq(Potentials(over)), SumSeq(Potentials(idle))>>)

\* generate_cost_recommendations(analysis)
generate_cost_recommendations(analysis) ==
    (IF Truthy(analysis.underutilized_clusters)
     THEN <<"Enable auto-scaling on underutilized clusters to reduce costs during low usage">>
     ELSE <<>>)
    \o (IF Truthy(analysis.oversized_clusters)
        THEN <<"Right-size oversized clusters to match actual workload requirements">>
        ELSE <<>>)
    \o (IF Truthy(analysis.idle_clusters)
        THEN <<"Configure auto-termination for idle clusters (recommend 30-60 minutes)">>
        ELSE <<>>)
    \o (IF analysis.cost_optimization_potential > 1000
        THEN <<"Consider using spot instances for non-critical workloads",
               "Implement cluster policies to prevent overprovisioning",
               "Review and optimize job schedules to reduce resource overlap">>
        ELSE <<>>)
    \o <<"Use pool-based clusters for better resource utilization",
         "Implement Delta Lake for improved storage efficiency",
         "Consider photon acceleration for SQL workloads",
         "Monitor and optimize data transfer costs",
         "Use appropriate storage classes for different data access patterns">>

\* the clusters analyze_cluster_utilization evaluates: the status code is not
\* looked at, the body is parsed whatever it is
fetched_clusters(resp) == Get(resp.body, "clusters", <<>>)

\* analyze_cluster_utilization(days), the clock reading t
analyze_cluster_utilization_empty_on_bad_body(resp, t) ==
    IF resp.kind = "raise" THEN [error |-> resp.message]
    ELSE LET clusters == IF resp.is_json THEN fetched_clusters(resp) ELSE <<>>
             under == GroupOf(clusters, "underutilized", t)
             over == GroupOf(clusters, "oversized", t)
             idle == GroupOf(clusters, "idle", t)
             analysis == [total_clusters |-> Len(clusters),
                          underutilized_clusters |-> under,
                          oversized_clusters |-> over,
                          idle_clusters |-> idle,
                          cost_optimization_potential |->
                              cost_optimization_potential(under, over, idle)]
         IN  analysis @@ [recommendations |-> generate_cost_recommendations(analysis)]
analyze_cluster_utilization(resp, t) ==
    IF resp.kind = "raise" THEN [error |-> resp.message]
    ELSE IF ~resp.is_json THEN [error |-> JsonError]
    ELSE LET clusters == fetched_clusters(resp)
             under == GroupOf(clusters, "underutilized", t)
             over == GroupOf(clusters, "oversized", t)
             idle == GroupOf(clusters, "idle", t)
             analysis == [total_clusters |-> Len(clusters),
                          underutilized_clusters |-> under,
                          oversized_clusters |-> over,
                          idle_clusters |-> idle,
                          cost_optimization_potential |->
                              cost_optimization_potential(under, over, idle)]
         IN  analysis @@ [recommendations |-> generate_cost_recommendations(analysis)]

-----------------------------------------------------------------------------
(* cost-analyzer.py: job analysis *)

\* str.count('*')
CountStars(s) == Cardinality({i \in 1..Len(s) : s[i] = "*"})

\* analyze_job_configuration(job)
analyze_job_configuration(job) ==
    LET settings == Get(job, "settings", EmptyDict)
        timeout_seconds == Get(settings, "timeout_seconds", 0)
        max_concurrent_runs == Get(settings, "max_concurrent_runs", 1)
        schedule == Get(settings, "schedule", EmptyDict)
    IN  (IF timeout_seconds = 0 THEN <<"No timeout configured">> ELSE <<>>)
        \o (IF max_concurrent_runs > 5
            THEN <<"High concurrent runs may cause resource contention">> ELSE <<>>)
        \o (IF Truthy(schedule) /\ CountStars(Get(schedule, "quartz_cron_expression", <<>>)) > 3
            THEN <<"Frequent scheduling may be inefficient">> ELSE <<>>)

RECURSIVE InefficientJobs(_)
InefficientJobs(jobs) ==
    IF jobs = <<>> THEN <<>>
    ELSE LET job == Head(jobs)
             inefficiencies == analyze_job_configuration(job)
         IN  (IF Truthy(inefficiencies)
              THEN <<[name |-> Get(Get(job, "settings", EmptyDict), "name", "Unknown"),
                      id |-> Get(job, "job_id", "None"),
                      issues |-> inefficiencies]>>
              ELSE <<>>)
                 \o InefficientJobs(Tail(jobs))

\* generate_job_optimizations(analysis)
generate_job_optimizations(analysis) ==
    IF Truthy(analysis.inefficient_jobs)
    THEN <<"Optimize Spark configurations for better performance",
           "Implement proper partitioning strategies",
           "Use broadcast joins for small lookup tables",
           "Enable adaptive query execution",
           "Optimize file sizes and formats (prefer Parquet/Delta)",
           "Implement proper caching strategies">>
    ELSE <<>>

\* analyze_job_efficiency()
analyze_job_efficiency(resp) ==
    IF resp.kind = "raise" THEN [error |-> resp.message]
    ELSE IF ~resp.is_json THEN [error |-> JsonError]
    ELSE LET jobs == Get(resp.body, "jobs", <<>>)
             analysis == [total_jobs |-> Len(jobs),
                          inefficient_jobs |-> InefficientJobs(jobs)]
         IN  analysis @@ [optimization_opportunities |-> generate_job_optimizations(analysis)]

-----------------------------------------------------------------------------
(* cost-analyzer.py: the report *)

\* the conditional expression of 'optimization_priority'
optimization_priority_from_5000(cluster_savings) ==
    IF cluster_savings >= 5000 THEN "HIGH"
    ELSE IF cluster_savings > 1000 THEN "MEDIUM" ELSE "LOW"
optimization_priority(cluster_savings) ==
    IF cluster_savings > 5000 THEN "HIGH"
    ELSE IF cluster_savings > 1000 THEN "MEDIUM" ELSE "LOW"

\* "Calculate summary metrics": report['summary'] from the two analyses
summary_metrics(cluster_analysis, job_analysis) ==
    LET cluster_savings == Get(cluster_analysis, "cost_optimization_potential", 0)
        total_clusters == Get(cluster_analysis, "total_clusters", 0)
        inefficient_jobs == Len(Get(job_analysis, "inefficient_jobs", <<>>))
    IN  [potential_monthly_savings |-> cluster_savings,
         clusters_needing_optimization |->
             Len(Get(cluster_analysis, "underutilized_clusters", <<>>))
             + Len(Get(cluster_analysis, "oversized_clusters", <<>>))
             + Len(Get(cluster_analysis, "idle_clusters", <<>>)),
         total_clusters |-> total_clusters,
         jobs_needing_optimization |-> inefficient_jobs,
         optimization_priority |-> optimization_priority(cluster_savings)]

\* the report as first built, with 'summary': {}
unsummarized_report(cluster_analysis, job_analysis, t, days) ==
    [analysis_date |-> t,
     period_days |-> days,
     cluster_analysis |-> cluster_analysis,
     job_analysis |-> job_analysis,
     summary |-> EmptyDict]

\* generate_cost_report(days), the clock reading t
generate_cost_report(cresp, jresp, t, days) ==
    LET built == unsummarized_report(analyze_cluster_utilization(cresp, t),
                                     analyze_job_efficiency(jresp), t, days)
    IN  [built EXCEPT !.summary = summary_metrics(built.cluster_analysis, built.job_analysis)]

-----------------------------------------------------------------------------
(* SpecCost: runs of the cost analyzer against fixed API responses *)

SparkCurrent == <<"1","2",".","2",".","x","-","s","c","a","l","a","2",".","1","2">>

\* cluster configurations that differ in what the grouping looks at
CostPool ==
    {("spark_version" :> SparkCurrent) @@ w @@ a @@ s :
        w \in {("num_workers" :> 2) @@ ("node_type_id" :> Standard_DS3_v2),
               ("num_workers" :> 11) @@ ("node_type_id" :> Standard_F4_large)},
        a \in {"autotermination_minutes" :> m : m \in {0, 60}},
        s \in {"state" :> "RUNNING",
               ("state" :> "PENDING") @@ ("last_activity_time" :> (StartTime - 3600))}}

ClusterIds == <<"c1", "c2", "c3", "c4", "c5">>

\* the cluster lists of a clusters/list body: ids are unique within a list
ClusterLists ==
    UNION {{[i \in 1..n |-> ("cluster_id" :> ClusterIds[i]) @@ cfg[i]] :
               cfg \in [1..n -> CostPool]} : n \in 0..MaxClusters}

ErrorBody == "error_code" :> "TEMPORARILY_UNAVAILABLE"

\* a failed request usually carries an error body, but a gateway may hand
\* back anything, a cluster list included
ClusterResponses ==
    {Raises("Connection refused"), NotJsonResponse(200), NotJsonResponse(500)}
        \cup {Response(200, "clusters" :> l) : l \in ClusterLists}
        \cup {Response(sc, ErrorBody) : sc \in {200, 500}}
        \cup {Response(500, "clusters" :> l) : l \in {m \in ClusterLists : Len(m) = 1}}

StarCron == <<"0"," ","*"," ","*"," ","*"," ","*"," ","?">>
DailyCron == <<"0"," ","0"," ","2"," ","*"," ","*"," ","?">>

JobNoTimeout == ("job_id" :> 1) @@ ("settings" :> [name |-> "etl"])
JobBusy ==
    ("job_id" :> 2) @@
    ("settings" :> [timeout_seconds |-> 3600, max_concurrent_runs |-> 6,
                    schedule |-> [quartz_cron_expression |-> StarCron]])
JobFine ==
    ("job_id" :> 3) @@
    ("settings" :> [name |-> "report", timeout_seconds |-> 3600, max_concurrent_runs |-> 5,
                    schedule |-> [quartz_cron_expression |-> DailyCron]])

JobResponses ==
    {Raises("Connection refused"), NotJsonResponse(200),
     Response(200, "jobs" :> <<JobNoTimeout, JobBusy, JobFine>>),
     Response(404, "jobs" :> <<JobBusy>>)}

DefaultDays == 30

InitCost ==
    /\ clusters_response \in ClusterResponses
    /\ jobs_response \in JobResponses
    /\ now = StartTime
    /\ report = <<>>
    /\ prev_report = <<>>
    /\ runs = 0
    /\ cluster = <<>>
    /\ issues = Unset
    /\ savings = -1
    /\ applied = {}
    /\ fetches = <<>>

\* main(): one run of generate_cost_report; the clock has moved on by then
GenerateCostReport ==
    /\ runs < MaxRuns
    /\ clusters_response # <<>>
    /\ \E t \in Times :
        /\ t >= now
        /\ now' = t
        /\ report' = generate_cost_report(clusters_response, jobs_response, t, DefaultDays)
    /\ prev_report' = report
    /\ runs' = runs + 1
    /\ UNCHANGED <<cluster, issues, savings, applied, clusters_response,
                   jobs_response, fetches>>

NextCost == GenerateCostReport

SpecCost == InitCost /\ [][NextCost]_vars

-----------------------------------------------------------------------------
(* databricks-security-scanner.py: the seven checks *)

\* a / b as the code computes it, 0 when the code's guard b > 0 fails; kept
\* as a fraction in lowest terms
RECURSIVE GCD(_, _)
GCD(a, b) == IF b = 0 THEN a ELSE GCD(b, a % b)
Ratio(a, b) == IF b > 0 THEN <<a \div GCD(a, b), b \div GCD(a, b)>> ELSE <<0, 1>>
\* p <= n / d and p >= n / d for fractions
RatioLeq(p, n, d) == p[1] * d <= n * p[2]
RatioGeq(p, n, d) == p[1] * d >= n * p[2]

\* the except branch of every check
ErrorResult(message) == [status |-> "ERROR", error |-> message]

\* response.json() if response.status_code == 200 else {}
json_if_ok(resp) == IF resp.status_code = 200 THEN resp.body ELSE EmptyDict

\* whether evaluating the line above raises
json_raises(resp) == resp.status_code = 200 /\ ~resp.is_json

\* check_access_controls()
check_access_controls(resp) ==
    IF resp.kind = "raise" THEN ErrorResult(resp.message)
    ELSE IF json_raises(resp) THEN ErrorResult(JsonError)
    ELSE LET workspace_config == json_if_ok(resp)
             access_control_enabled == Get(workspace_config, "enableWorkspaceAccessControl", FALSE)
             table_access_control == Get(workspace_config, "enableTableAccessControl", FALSE)
         IN  [workspace_access_control |-> access_control_enabled,
              table_access_control |-> table_access_control,
              status |-> IF access_control_enabled /\ table_access_control
                         THEN "PASS" ELSE "FAIL",
              details |-> workspace_config]

\* a truthy string of a JSON body
NonEmptyString(d, key) == key \in DOMAIN d /\ d[key] # ""

\* check_network_security()
check_network_security(resp) ==
    IF resp.kind = "raise" THEN ErrorResult(resp.message)
    ELSE IF json_raises(resp) THEN ErrorResult(JsonError)
    ELSE LET clusters == Get(json_if_ok(resp), "clusters", <<>>)
             IsSecure(c) ==
                 LET aws_attributes == Get(c, "aws_attributes", EmptyDict)
                 IN  NonEmptyString(aws_attributes, "zone_id")
                     /\ NonEmptyString(aws_attributes, "instance_profile_arn")
             secure_clusters == Cardinality({i \in 1..Len(clusters) : IsSecure(clusters[i])})
             total_clusters == Len(clusters)
             security_ratio == Ratio(secure_clusters, total_clusters)
         IN  [secure_clusters |-> secure_clusters,
              total_clusters |-> total_clusters,
              security_ratio |-> security_ratio,
              status |-> IF RatioGeq(security_ratio, 8, 10) THEN "PASS" ELSE "FAIL"]

\* check_encryption_settings()
check_encryption_settings(resp) ==
    IF resp.kind = "raise" THEN ErrorResult(resp.message)
    ELSE IF json_raises(resp) THEN ErrorResult(JsonError)
    ELSE LET config == json_if_ok(resp)
             encryption_enabled == Get(config, "enableCustomerManagedKeys", FALSE)
         IN  [customer_managed_keys |-> encryption_enabled,
              status |-> IF encryption_enabled THEN "PASS" ELSE "WARN",
              details |-> "Customer-managed keys provide additional security"]

\* check_audit_logging()
check_audit_logging(resp) ==
    IF resp.kind = "raise" THEN ErrorResult(resp.message)
    ELSE IF json_raises(resp) THEN ErrorResult(JsonError)
    ELSE LET config == json_if_ok(resp)
             audit_log_enabled == Get(config, "enableAuditLog", FALSE)
         IN  [audit_logging_enabled |-> audit_log_enabled,
              status |-> IF audit_log_enabled THEN "PASS" ELSE "FAIL",
              details |-> "Audit logging is essential for compliance and security monitoring"]

\* check_secret_management()
check_secret_management(resp) ==
    IF resp.kind = "raise" THEN ErrorResult(resp.message)
    ELSE IF json_raises(resp) THEN ErrorResult(JsonError)
    ELSE LET scopes == Get(json_if_ok(resp), "scopes", <<>>)
             IsKeyVault(scope) == Get(scope, "backend_type", "None") = "AZURE_KEYVAULT"
             secure_scopes == Cardinality({i \in 1..Len(scopes) : IsKeyVault(scopes[i])})
             total_scopes == Len(scopes)
         IN  [secret_scopes |-> total_scopes,
              secure_scopes |-> secure_scopes,
              status |-> IF secure_scopes = total_scopes /\ total_scopes > 0
                         THEN "PASS" ELSE "WARN",
              details |-> "Use external secret management services for enhanced security"]

\* the issues one cluster adds in check_cluster_security
cluster_security_issues(c) ==
    LET cluster_name == Get(c, "cluster_name", "Unknown")
    IN  (IF ~Get(c, "enable_elastic_disk", TRUE)
         THEN <<<<cluster_name, "Elastic disk not enabled">>>> ELSE <<>>)
        \o (IF Get(c, "autotermination_minutes", 0) = 0
            THEN <<<<cluster_name, "Auto-termination not configured">>>> ELSE <<>>)
        \o (IF ~Contains(<<"L","T","S">>, Get(c, "spark_version", <<>>))
            THEN <<<<cluster_name, "Not using LTS runtime">>>> ELSE <<>>)

\* the loop of check_cluster_security from cluster i on: the issue list is
\* shared by all clusters, a cluster counts as secure while it is empty
RECURSIVE cluster_security_loop_per_cluster(_, _, _, _)
cluster_security_loop_per_cluster(clusters, i, secure_clusters, found) ==
    IF i > Len(clusters) THEN [secure_clusters |-> secure_clusters, issues |-> found]
    ELSE LET own == cluster_security_issues(clusters[i])
         IN  cluster_security_loop_per_cluster(clusters, i + 1,
                 IF Len(own) = 0 THEN secure_clusters + 1 ELSE secure_clusters, found \o own)
RECURSIVE cluster_security_loop(_, _, _, _)
cluster_security_loop(clusters, i, secure_clusters, found) ==
    IF i > Len(clusters) THEN [secure_clusters |-> secure_clusters, issues |-> found]
    ELSE LET after == found \o cluster_security_issues(clusters[i])
         IN  cluster_security_loop(clusters, i + 1,
                 IF Len(after) = 0 THEN secure_clusters + 1 ELSE secure_clusters, after)

\* check_cluster_security()
check_cluster_security(resp) ==
    IF resp.kind = "raise" THEN ErrorResult(resp.message)
    ELSE IF json_raises(resp) THEN ErrorResult(JsonError)
    ELSE LET clusters == Get(json_if_ok(resp), "clusters", <<>>)
             looped == cluster_security_loop(clusters, 1, 0, <<>>)
         IN  [secure_clusters |-> looped.secure_clusters,
              total_clusters |-> Len(clusters),
              security_issues |-> looped.issues,
              status |-> IF Len(looped.issues) = 0 THEN "PASS" ELSE "WARN"]

\* check_user_permissions()
check_user_permissions(resp) ==
    IF resp.kind = "raise" THEN ErrorResult(resp.message)
    ELSE IF json_raises(resp) THEN ErrorResult(JsonError)
    ELSE LET users == Get(json_if_ok(resp), "Resources", <<>>)
             IsActive(user) == Get(user, "active", FALSE)
             IsAdmin(user) ==
                 /\ Get(user, "active", FALSE)
                 /\ LET groups == Get(user, "groups", <<>>)
                    IN  \E g \in 1..Len(groups) : Get(groups[g], "display", "None") = "admins"
             admin_users == Cardinality({i \in 1..Len(users) : IsAdmin(users[i])})
             total_active_users == Cardinality({i \in 1..Len(users) : IsActive(users[i])})
             admin_ratio == Ratio(admin_users, total_active_users)
         IN  [total_users |-> total_active_users,
              admin_users |-> admin_users,
              admin_ratio |-> admin_ratio,
              status |-> IF RatioLeq(admin_ratio, 2, 10) THEN "PASS" ELSE "WARN",
              details |-> "Limit admin privileges following principle of least privilege"]

-----------------------------------------------------------------------------
(* databricks-security-scanner.py: score, recommendations, report *)

\* the keys of security_checks in insertion order
CheckOrder == <<"access_controls", "network_security", "encryption", "audit_logging",
                "secret_management", "cluster_security", "user_permissions">>

\* the loop of calculate_compliance_score from entry i on
RECURSIVE score_loop_skipping_errors(_, _, _, _)
score_loop_skipping_errors(checks, i, total_checks, passed_checks) ==
    IF i > Len(CheckOrder) THEN <<total_checks, passed_checks>>
    ELSE LET result == checks[CheckOrder[i]]
         IN  score_loop_skipping_errors(checks, i + 1,
                 IF Get(result, "status", "None") = "ERROR" THEN total_checks
                 ELSE total_checks + 1,
                 IF Get(result, "status", "None") = "PASS" THEN passed_checks + 1
                 ELSE passed_checks)
RECURSIVE score_loop(_, _, _, _)
score_loop(checks, i, total_checks, passed_checks) ==
    IF i > Len(CheckOrder) THEN <<total_checks, passed_checks>>
    ELSE LET result == checks[CheckOrder[i]]
         IN  score_loop(checks, i + 1, total_checks + 1,
                 IF Get(result, "status", "None") = "PASS" THEN passed_checks + 1
                 ELSE passed_checks)

\* calculate_compliance_score(checks): passed / total * 100 as a fraction
calculate_compliance_score(checks) ==
    LET counted == score_loop(checks, 1, 0, 0)
    IN  Ratio(counted[2] * 100, counted[1])

\* the if/elif chain of generate_recommendations
recommendation_for(check_name) ==
    IF check_name = "access_controls" THEN <<"Enable workspace and table access controls">>
    ELSE IF check_name = "network_security"
        THEN <<"Configure VPC and proper network security settings">>
    ELSE IF check_name = "encryption" THEN <<"Implement customer-managed encryption keys">>
    ELSE IF check_name = "audit_logging" THEN <<"Enable comprehensive audit logging">>
    ELSE IF check_name = "secret_management" THEN <<"Use external secret management services">>
    ELSE IF check_name = "cluster_security" THEN <<"Review cluster security configurations">>
    ELSE IF check_name = "user_permissions"
        THEN <<"Review and minimize administrative privileges">>
    ELSE <<>>

\* result.get('status') in ['FAIL', 'WARN']
needs_recommendation_not_pass(result) == Get(result, "status", "None") # "PASS"
needs_recommendation_fail_only(result) == Get(result, "status", "None") = "FAIL"
needs_recommendation(result) == Get(result, "status", "None") \in {"FAIL", "WARN"}

\* generate_recommendations(checks), from entry i on
RECURSIVE generate_recommendations(_, _)
generate_recommendations(checks, i) ==
    IF i > Len(CheckOrder) THEN <<>>
    ELSE (IF needs_recommendation(checks[CheckOrder[i]])
          THEN recommendation_for(CheckOrder[i]) ELSE <<>>)
             \o generate_recommendations(checks, i + 1)

WorkspaceUrl == "https://adb.example.net"

\* check_workspace_security(), the clock reading t; f gives the outcome of the
\* fetch each check makes
check_workspace_security(f, t) ==
    LET security_checks ==
            [access_controls |-> check_access_controls(f["access_controls"]),
             network_security |-> check_network_security(f["network_security"]),
             encryption |-> check_encryption_settings(f["encryption"]),
             audit_logging |-> check_audit_logging(f["audit_logging"]),
             secret_management |-> check_secret_management(f["secret_management"]),
             cluster_security |-> check_cluster_security(f["cluster_security"]),
             user_permissions |-> check_user_permissions(f["user_permissions"])]
    IN  [timestamp |-> t,
         workspace_url |-> WorkspaceUrl,
         security_checks |-> security_checks,
         compliance_score |-> calculate_compliance_score(security_checks),
         recommendations |-> generate_recommendations(security_checks, 1)]

-----------------------------------------------------------------------------
(* SpecSec: runs of the security scanner against fixed API responses *)

ConfAllOn == [enableWorkspaceAccessControl |-> TRUE, enableTableAccessControl |-> TRUE,
              enableCustomerManagedKeys |-> TRUE, enableAuditLog |-> TRUE]
ConfPartial == [enableWorkspaceAccessControl |-> TRUE, enableTableAccessControl |-> FALSE,
                enableAuditLog |-> FALSE]

LtsVersion == <<"1","0",".","4"," ","L","T","S">>
SecureCluster ==
    [cluster_name |-> "prod", enable_elastic_disk |-> TRUE, autotermination_minutes |-> 30,
     spark_version |-> LtsVersion,
     aws_attributes |-> [zone_id |-> "us-east-1a", instance_profile_arn |-> "arn:aws:iam::1"]]
LooseCluster ==
    [autotermination_minutes |-> 0, enable_elastic_disk |-> FALSE,
     spark_version |-> SparkCurrent, aws_attributes |-> [zone_id |-> "us-east-1a"]]

VaultScope == [name |-> "kv", backend_type |-> "AZURE_KEYVAULT"]
LocalScope == [name |-> "local", backend_type |-> "DATABRICKS"]

AdminUser == [active |-> TRUE, groups |-> <<[display |-> "users"], [display |-> "admins"]>>]
PlainUser == [active |-> TRUE, groups |-> <<[display |-> "users"]>>]
FormerAdmin == [active |-> FALSE, groups |-> <<[display |-> "admins"]>>]

Refused == Raises("Connection refused")

\* what the fetch of each check can produce
FetchOutcomes ==
    [access_controls |-> {Refused, Response(200, ConfAllOn), Response(200, ConfPartial),
                          Response(403, ConfAllOn)},
     network_security |-> {Refused, Response(200, "clusters" :> <<SecureCluster>>),
                           Response(200, "clusters" :> <<SecureCluster, LooseCluster>>),
                           Response(500, "clusters" :> <<LooseCluster>>)},
     encryption |-> {Refused, Response(200, ConfAllOn), Response(200, ConfPartial)},
     audit_logging |-> {Refused, Response(200, ConfAllOn), Response(200, ConfPartial)},
     secret_management |-> {Refused, Response(200, "scopes" :> <<VaultScope>>),
                            Response(200, "scopes" :> <<VaultScope, LocalScope>>),
                            Response(404, "scopes" :> <<VaultScope>>)},
     cluster_security |-> {Refused, NotJsonResponse(200), Response(200, "clusters" :> <<SecureCluster>>),
                           Response(200, "clusters" :> <<SecureCluster, LooseCluster>>)},
     user_permissions |-> {Refused,
                           Response(200, "Resources" :> <<AdminUser, PlainUser, PlainUser,
                                                           PlainUser, PlainUser, FormerAdmin>>),
                           Response(200, "Resources" :> <<AdminUser, AdminUser, PlainUser>>),
                           Response(503, "Resources" :> <<AdminUser>>)}]

InitSec ==
    /\ fetches \in [access_controls : FetchOutcomes.access_controls,
                    network_security : FetchOutcomes.network_security,
                    encryption : FetchOutcomes.encryption,
                    audit_logging : FetchOutcomes.audit_logging,
                    secret_management : FetchOutcomes.secret_management,
                    cluster_security : FetchOutcomes.cluster_security,
                    user_permissions : FetchOutcomes.user_permissions]
    /\ now = StartTime
    /\ report = <<>>
    /\ prev_report = <<>>
    /\ runs = 0
    /\ cluster = <<>>
    /\ issues = Unset
    /\ savings = -1
    /\ applied = {}
    /\ clusters_response = <<>>
    /\ jobs_response = <<>>

\* main(): one run of check_workspace_security; the clock has moved on by then
CheckWorkspaceSecurity ==
    /\ runs < MaxRuns
    /\ fetches # <<>>
    /\ \E t \in Times :
        /\ t >= now
        /\ now' = t
        /\ report' = check_workspace_security(fetches, t)
    /\ prev_report' = report
    /\ runs' = runs + 1
    /\ UNCHANGED <<cluster, issues, savings, applied, clusters_response,
                   jobs_response, fetches>>

NextSec == CheckWorkspaceSecurity

SpecSec == InitSec /\ [][NextSec]_vars

\* either analyzer, run repeatedly
SpecBoth == (InitCost \/ InitSec) /\ [][NextCost \/ NextSec]_vars

-----------------------------------------------------------------------------
(* Properties of the per-cluster functions, under SpecCluster *)

Analyzed == "analyze_cluster_configuration" \in applied
Estimated == "estimate_cluster_savings" \in applied

\* C3: a cluster whose autotermination_minutes is 0 is always tagged
\* "No auto-termination configured", whatever its other fields; it is tagged
\* "Long auto-termination period" exactly when the value is above 120; the
\* two tags never occur together.
C3_AutoTerminationTags ==
    Analyzed =>
        /\ (Has(cluster, "autotermination_minutes") /\ cluster["autotermination_minutes"] = 0
                => InList(NoAutoTermination, issues))
        /\ (InList(LongAutoTermination, issues)
                <=> (Has(cluster, "autotermination_minutes")
                     /\ cluster["autotermination_minutes"] > 120))
        /\ ~(InList(NoAutoTermination, issues) /\ InList(LongAutoTermination, issues))

\* a cluster with autotermination_minutes 0 that also draws other tags
C3_Witness ==
    /\ Analyzed
    /\ Has(cluster, "autotermination_minutes") /\ cluster["autotermination_minutes"] = 0
    /\ InList(NoAutoTermination, issues)
    /\ InList("oversized", issues) /\ InList("idle", issues)

\* C4: "oversized" is tagged if and only if the autoscale config is missing
\* or empty and num_workers is above 10 (11 is tagged, 10 is not); a cluster
\* with a non-empty autoscale config is never tagged.
C4_OversizedIff ==
    Analyzed =>
        /\ (InList("oversized", issues)
                <=> /\ (~Has(cluster, "autoscale") \/ cluster["autoscale"] = EmptyDict)
                    /\ Has(cluster, "num_workers") /\ cluster["num_workers"] >= 11)
        /\ (~Has(cluster, "autoscale") /\ Has(cluster, "num_workers")
                => /\ (cluster["num_workers"] = 11 => InList("oversized", issues))
                   /\ (cluster["num_workers"] = 10 => ~InList("oversized", issues)))
        /\ (Has(cluster, "autoscale") /\ cluster["autoscale"] # EmptyDict
                => ~InList("oversized", issues))

\* eleven workers and no autoscale config: tagged
C4_Witness ==
    /\ Analyzed
    /\ ~Has(cluster, "autoscale")
    /\ Has(cluster, "num_workers") /\ cluster["num_workers"] = 11
    /\ InList("oversized", issues)

\* the keyword table of the specification: keyword and rate in half dollars
C5_Keywords == << <<"s","m","a","l","l">>, <<"m","e","d","i","u","m">>,
                  <<"l","a","r","g","e">>, <<"x","l","a","r","g","e">>, <<"g","p","u">> >>
C5_HalfDollars == <<1, 2, 4, 8, 16>>
C5_Hits(c) ==
    {i \in 1..5 : Contains(C5_Keywords[i], lower(Get(c, "node_type_id", <<>>)))}
C5_Rate(c) ==
    IF C5_Hits(c) = {} THEN 2
    ELSE C5_HalfDollars[CHOOSE i \in C5_Hits(c) : \A j \in C5_Hits(c) : i <= j]

\* C5: the estimate is rate * (num_workers + 1) * 720 * 0.3, the rate being
\* that of the first keyword of small, medium, large, xlarge, gpu occurring in
\* the lower-cased node type, 1.0 when none occurs; Standard_F4_large with 12
\* workers gives 5616.
C5_SavingsFormula ==
    Estimated =>
        /\ savings = C5_Rate(cluster) * (Get(cluster, "num_workers", 0) + 1) * 108
        /\ (Has(cluster, "node_type_id") /\ cluster["node_type_id"] = Standard_DS3_v2
                => savings = (Get(cluster, "num_workers", 0) + 1) * 216)
        /\ (Has(cluster, "node_type_id") /\ cluster["node_type_id"] = Standard_F4_large
            /\ Has(cluster, "num_workers") /\ cluster["num_workers"] = 12
                => savings = 5616)

\* the scenario of the specification: Standard_F4_large with 12 workers
C5_Witness ==
    /\ Estimated
    /\ Has(cluster, "node_type_id") /\ cluster["node_type_id"] = Standard_F4_large
    /\ Has(cluster, "num_workers") /\ cluster["num_workers"] = 12
    /\ savings = 5616

-----------------------------------------------------------------------------
(* Properties of the cost analyzer, under SpecCost *)

CostRan == runs >= 1 /\ Has(report, "summary")
ClustersAnalyzed == CostRan /\ ~Has(report.cluster_analysis, "error")
GroupNames == {"underutilized_clusters", "oversized_clusters", "idle_clusters"}

\* cluster c has an entry in group g of the cluster analysis a
InGroup(a, g, c) == \E j \in 1..Len(a[g]) : a[g][j].id = c["cluster_id"]

\* C1: every fetched cluster tagged for no or long auto-termination is in
\* underutilized_clusters, every cluster tagged "oversized" is in
\* oversized_clusters and every cluster tagged "idle" is in idle_clusters.
C1_GroupedByTag ==
    ClustersAnalyzed =>
        LET a == report.cluster_analysis
            cs == fetched_clusters(clusters_response)
        IN  \A i \in 1..Len(cs) :
                LET found == analyze_cluster_configuration(cs[i], now)
                IN  /\ (InList(NoAutoTermination, found) \/ InList(LongAutoTermination, found)
                            => InGroup(a, "underutilized_clusters", cs[i]))
                    /\ (InList("oversized", found) => InGroup(a, "oversized_clusters", cs[i]))
                    /\ (InList("idle", found) => InGroup(a, "idle_clusters", cs[i]))

\* number of groups of the analysis a that hold cluster c
GroupCount(a, c) == Cardinality({g \in GroupNames : InGroup(a, g, c)})

\* C2: cost_optimization_potential is the sum over the three groups of the
\* estimate of each cluster in the group: a cluster listed in k groups adds k
\* times its estimate, a cluster in no group adds nothing.
C2_PotentialIsGroupSum ==
    ClustersAnalyzed =>
        LET a == report.cluster_analysis
            cs == fetched_clusters(clusters_response)
        IN  /\ a.cost_optimization_potential
                  = SumSeq([i \in 1..Len(cs) |->
                                GroupCount(a, cs[i]) * estimate_cluster_savings(cs[i])])
            /\ \A g \in GroupNames : \A j, k \in 1..Len(a[g]) :
                    a[g][j].id = a[g][k].id => j = k
            /\ \A g \in GroupNames : \A j \in 1..Len(a[g]) :
                    \E i \in 1..Len(cs) : a[g][j].id = cs[i]["cluster_id"]

\* one cluster sits in two groups and is counted twice, another in none
C2_Witness ==
    /\ ClustersAnalyzed
    /\ LET a == report.cluster_analysis
           cs == fetched_clusters(clusters_response)
       IN  /\ \E i \in 1..Len(cs) : GroupCount(a, cs[i]) = 2
           /\ \E i \in 1..Len(cs) : GroupCount(a, cs[i]) = 0
           /\ a.cost_optimization_potential = 2 * 5184

\* the analysis of an empty cluster collection
EmptyClusterAnalysis(a) ==
    /\ ~Has(a, "error")
    /\ a.total_clusters = 0
    /\ \A g \in GroupNames : a[g] = <<>>
    /\ a.cost_optimization_potential = 0

\* C9: a response with a non-200 status is an empty resource collection,
\* whatever its body: nothing of it is evaluated or reported and the
\* analysis does not fail.
C9_Non200IsEmpty ==
    CostRan =>
        /\ (clusters_response.kind = "response" /\ clusters_response.status_code # 200
                => EmptyClusterAnalysis(report.cluster_analysis))
        /\ (jobs_response.kind = "response" /\ jobs_response.status_code # 200
                => /\ ~Has(report.job_analysis, "error")
                   /\ report.job_analysis.total_jobs = 0
                   /\ report.job_analysis.inefficient_jobs = <<>>)

\* the report without its timestamp field
Content(r) == [k \in DOMAIN r \ {"analysis_date", "timestamp"} |-> r[k]]

\* C10: a second run on the same API responses gives the same report
\* content, the timestamp field aside, whenever it happens.
C10_SameContentWhenever ==
    runs >= 2 => Content(report) = Content(prev_report)

-----------------------------------------------------------------------------
(* Properties of the security scanner, under SpecSec *)

SecRan == runs >= 1 /\ Has(report, "security_checks")
CheckNames == {CheckOrder[i] : i \in 1..Len(CheckOrder)}
StatusOf(name) == report.security_checks[name].status
WithStatus(statuses) == {name \in CheckNames : StatusOf(name) \in statuses}

\* C6: compliance_score is (number of the seven checks with status PASS)
\* / 7 * 100: 100 when all pass, 0 when none does; WARN, FAIL and ERROR are
\* not passed but count in the denominator.
C6_ComplianceScore ==
    SecRan =>
        /\ report.compliance_score[1] * 7
               = Cardinality(WithStatus({"PASS"})) * 100 * report.compliance_score[2]
        /\ (WithStatus({"PASS"}) = CheckNames => report.compliance_score = <<100, 1>>)
        /\ (WithStatus({"PASS"}) = {} => report.compliance_score = <<0, 1>>)

\* a run whose checks end in all four statuses
C6_Witness ==
    /\ SecRan
    /\ \A st \in {"PASS", "WARN", "FAIL", "ERROR"} : WithStatus({st}) # {}
    /\ Cardinality(WithStatus({"PASS"})) = 3
    /\ report.compliance_score = <<300, 7>>

AllFetchesRaise == \A name \in CheckNames : fetches[name].kind = "raise"

\* C7: when every fetch raises the run still returns its report: each check
\* is ERROR with the failure message, compliance_score is 0 and there is no
\* recommendation.
C7_AllFetchesRaise ==
    SecRan /\ AllFetchesRaise =>
        /\ \A name \in CheckNames :
              report.security_checks[name]
                  = [status |-> "ERROR", error |-> fetches[name].message]
        /\ report.compliance_score = <<0, 1>>
        /\ report.recommendations = <<>>

C7_Witness ==
    /\ SecRan
    /\ AllFetchesRaise
    /\ WithStatus({"ERROR"}) = CheckNames

\* the recommendation string of each check
C8_Text ==
    [access_controls |-> "Enable workspace and table access controls",
     network_security |-> "Configure VPC and proper network security settings",
     encryption |-> "Implement customer-managed encryption keys",
     audit_logging |-> "Enable comprehensive audit logging",
     secret_management |-> "Use external secret management services",
     cluster_security |-> "Review cluster security configurations",
     user_permissions |-> "Review and minimize administrative privileges"]
C8_Position(name) == CHOOSE i \in 1..Len(CheckOrder) : CheckOrder[i] = name

\* C8: the recommendations are the fixed string of each FAIL or WARN check,
\* once each, none for a PASS check, in the order of the seven check names;
\* the length is the number of FAIL/WARN checks.
C8_Recommendations ==
    SecRan =>
        LET recs == report.recommendations
            flagged == WithStatus({"FAIL", "WARN"})
        IN  /\ Len(recs) = Cardinality(flagged)
            /\ \A name \in flagged :
                  Cardinality({i \in 1..Len(recs) : recs[i] = C8_Text[name]}) = 1
            /\ \A name \in WithStatus({"PASS"}) : ~InList(C8_Text[name], recs)
            /\ \A i, j \in 1..Len(recs) :
                  i < j =>
                      \E a, b \in flagged :
                          /\ recs[i] = C8_Text[a] /\ recs[j] = C8_Text[b]
                          /\ C8_Position(a) < C8_Position(b)

\* FAIL, WARN, PASS and ERROR checks in one run, the flagged ones not adjacent
C8_Witness ==
    /\ SecRan
    /\ StatusOf("access_controls") = "FAIL"
    /\ StatusOf("network_security") = "PASS"
    /\ StatusOf("encryption") = "ERROR"
    /\ StatusOf("cluster_security") = "WARN"
    /\ StatusOf("user_permissions") = "WARN"
    /\ Len(report.recommendations) >= 3

-----------------------------------------------------------------------------
(* Repeated runs of either analyzer, under SpecBoth *)

\* the clusters the cost analyzer evaluates in a run
EvaluatedClusters ==
    IF Has(clusters_response, "kind") /\ clusters_response.kind = "response"
       /\ clusters_response.is_json
    THEN fetched_clusters(clusters_response) ELSE <<>>

PendingOrRestarting(c) == Get(c, "state", "") \in {"PENDING", "RESTARTING"}

\* no PENDING or RESTARTING cluster passes the one-hour mark between the
\* clock readings t1 and t2
SameIdleWindow(t1, t2) ==
    \A i \in 1..Len(EvaluatedClusters) :
        LET c == EvaluatedClusters[i]
        IN  PendingOrRestarting(c) =>
                ((Get(c, "last_activity_time", 0) < t1 - 3600)
                    <=> (Get(c, "last_activity_time", 0) < t2 - 3600))

ReportTime(r) == IF Has(r, "analysis_date") THEN r.analysis_date ELSE r.timestamp

\* C10 (amended): a second run on the same API responses gives the same
\* report content, the timestamp field aside, for the security scanner
\* always, and for the cost analyzer whenever no PENDING or RESTARTING
\* cluster has its last_activity_time pass now - 3600 between the two runs.
C10_SameContentSameIdleWindow ==
    runs >= 2 /\ SameIdleWindow(ReportTime(prev_report), ReportTime(report))
        => Content(report) = Content(prev_report)

\* two cost runs at different times, both after a pending cluster went idle
C10_Witness ==
    /\ runs >= 2
    /\ Has(report, "summary")
    /\ report.analysis_date > prev_report.analysis_date
    /\ ClustersAnalyzed
    /\ report.cluster_analysis.idle_clusters # <<>>
    /\ Content(report) = Content(prev_report)

-----------------------------------------------------------------------------
(* SpecSummary: the summary step of generate_cost_report on any analyses *)

\* potentials on both sides of the two priority thresholds
SummaryPotentials == {0, 108, 972, 999, 1000, 1001, 1080, 4968, 4999, 5000, 5001, 5076, 5184}

GroupEntry == [name |-> "Unknown", id |-> "c1", issues |-> <<"oversized">>,
               potential_savings |-> 108]

\* what analyze_cluster_utilization can hand to the summary step
ClusterAnalyses ==
    {[error |-> "Connection refused"]}
        \cup {[total_clusters |-> n,
               underutilized_clusters |-> <<>>,
               oversized_clusters |-> [i \in 1..k |-> GroupEntry],
               idle_clusters |-> [i \in 1..j |-> GroupEntry],
               cost_optimization_potential |-> p,
               recommendations |-> <<>>] :
                   n \in 0..MaxClusters, k \in 0..MaxClusters, j \in 0..MaxClusters,
                   p \in SummaryPotentials}

\* what analyze_job_efficiency can hand to the summary step
JobAnalyses ==
    {[error |-> "Connection refused"],
     [total_jobs |-> 0, inefficient_jobs |-> <<>>, optimization_opportunities |-> <<>>],
     [total_jobs |-> 2,
      inefficient_jobs |-> <<[name |-> "etl", id |-> 1, issues |-> <<"No timeout configured">>]>>,
      optimization_opportunities |-> <<"Enable adaptive query execution">>]}

InitSummary ==
    /\ report \in {unsummarized_report(ca, ja, StartTime, DefaultDays) :
                      ca \in ClusterAnalyses, ja \in JobAnalyses}
    /\ prev_report = <<>>
    /\ now = StartTime
    /\ runs = 0
    /\ cluster = <<>>
    /\ issues = Unset
    /\ savings = -1
    /\ applied = {}
    /\ clusters_response = <<>>
    /\ jobs_response = <<>>
    /\ fetches = <<>>

\* lines 271-284 of generate_cost_report: fill in report['summary']
Summarize ==
    /\ Has(report, "summary") /\ report.summary = EmptyDict
    /\ report' = [report EXCEPT
                    !.summary = summary_metrics(report.cluster_analysis, report.job_analysis)]
    /\ UNCHANGED <<cluster, issues, savings, applied, now, clusters_response,
                   jobs_response, fetches, prev_report, runs>>

NextSummary == Summarize

SpecSummary == InitSummary /\ [][NextSummary]_vars

\* the summary of the report has been computed
Summarized == Has(report, "summary") /\ report.summary # EmptyDict

\* C11: optimization_priority is HIGH iff potential_monthly_savings > 5000,
\* MEDIUM iff it is above 1000 and at most 5000, LOW otherwise (5000 is
\* MEDIUM, 1000 is LOW); potential_monthly_savings is the
\* cost_optimization_potential of the cluster analysis, 0 when that analysis
\* is an error and has none.
C11_PriorityBands ==
    Summarized =>
        LET p == report.summary.potential_monthly_savings
            priority == report.summary.optimization_priority
        IN  /\ (priority = "HIGH" <=> p > 5000)
            /\ (priority = "MEDIUM" <=> (p > 1000 /\ p <= 5000))
            /\ (priority = "LOW" <=> p <= 1000)
            /\ (p = 5000 => priority = "MEDIUM")
            /\ (p = 1000 => priority = "LOW")
            /\ (Has(report.cluster_analysis, "cost_optimization_potential")
                    => p = report.cluster_analysis.cost_optimization_potential)
            /\ (~Has(report.cluster_analysis, "cost_optimization_potential") => p = 0)

\* a potential of exactly 5000, classified MEDIUM
C11_Witness ==
    /\ Summarized
    /\ Has(report.cluster_analysis, "cost_optimization_potential")
    /\ report.cluster_analysis.cost_optimization_potential = 5000
    /\ report.summary.potential_monthly_savings = 5000
    /\ report.summary.optimization_priority = "MEDIUM"

-----------------------------------------------------------------------------
(* SpecClusterSecurity: check_cluster_security on any cluster list *)

\* cluster configurations over the fields check_cluster_security reads
SecurityPool ==
    {a @@ b @@ c :
        a \in {Absent, "enable_elastic_disk" :> TRUE, "enable_elastic_disk" :> FALSE},
        b \in {Absent, "autotermination_minutes" :> 0, "autotermination_minutes" :> 30},
        c \in {Absent, "spark_version" :> LtsVersion, "spark_version" :> SparkCurrent}}

SecurityLists == UNION {[1..n -> SecurityPool] : n \in 0..MaxClusters}

SecurityClusterResponses ==
    {Refused, NotJsonResponse(200), NotJsonResponse(502)}
        \cup {Response(200, "clusters" :> l) : l \in SecurityLists}
        \cup {Response(200, ErrorBody)}
        \cup {Response(500, "clusters" :> l) : l \in {m \in SecurityLists : Len(m) = 1}}

InitClusterSecurity ==
    /\ clusters_response \in SecurityClusterResponses
    /\ report = <<>>
    /\ prev_report = <<>>
    /\ now = StartTime
    /\ runs = 0
    /\ cluster = <<>>
    /\ issues = Unset
    /\ savings = -1
    /\ applied = {}
    /\ jobs_response = <<>>
    /\ fetches = <<>>

\* one call of check_cluster_security()
CheckClusterSecurity ==
    /\ report = <<>>
    /\ report' = check_cluster_security(clusters_response)
    /\ UNCHANGED <<cluster, issues, savings, applied, now, clusters_response,
                   jobs_response, fetches, prev_report, runs>>

NextClusterSecurity == CheckClusterSecurity

SpecClusterSecurity == InitClusterSecurity /\ [][NextClusterSecurity]_vars

\* the check returned from its try block
ClusterSecurityChecked == Has(report, "status") /\ report.status # "ERROR"

\* the clusters the check scans
ScannedClusters ==
    IF clusters_response.kind = "response" /\ clusters_response.status_code = 200
    THEN Get(clusters_response.body, "clusters", <<>>) ELSE <<>>

\* the cluster lacks elastic disk, has no auto-termination or runs no LTS runtime
HasSecurityIssue(c) ==
    \/ (Has(c, "enable_elastic_disk") /\ c["enable_elastic_disk"] = FALSE)
    \/ ~Has(c, "autotermination_minutes") \/ c["autotermination_minutes"] = 0
    \/ ~Has(c, "spark_version") \/ ~Contains(<<"L","T","S">>, c["spark_version"])

\* number of clusters before the first one with an issue
CleanPrefix(cs) ==
    Cardinality({i \in 1..Len(cs) : \A j \in 1..i : ~HasSecurityIssue(cs[j])})

\* C12: secure_clusters is the number of clusters that precede the first
\* cluster with any issue; clusters after it are not counted even when they
\* have no issue; the status is PASS iff the accumulated issue list is empty,
\* i.e. iff secure_clusters = total_clusters, and WARN otherwise.
C12_SecureCountIsCleanPrefix ==
    ClusterSecurityChecked =>
        /\ report.total_clusters = Len(ScannedClusters)
        /\ report.secure_clusters = CleanPrefix(ScannedClusters)
        /\ (report.status = "PASS" <=> report.security_issues = <<>>)
        /\ (report.status = "PASS" <=> report.secure_clusters = report.total_clusters)
        /\ report.status \in {"PASS", "WARN"}

\* a cluster without issues that follows one with issues and is not counted
C12_Witness ==
    /\ ClusterSecurityChecked
    /\ Len(ScannedClusters) = 2
    /\ HasSecurityIssue(ScannedClusters[1])
    /\ ~HasSecurityIssue(ScannedClusters[2])
    /\ report.secure_clusters = 0
    /\ report.status = "WARN"

-----------------------------------------------------------------------------
(* Failures inside the cost analyzer, under SpecCost *)

\* the exception a fetch-and-parse of resp ends in, if any
Fails(resp) == resp.kind = "raise" \/ ~resp.is_json
FailureMessage(resp) == IF resp.kind = "raise" THEN resp.message ELSE JsonError

ReportKeys == {"analysis_date", "period_days", "cluster_analysis", "job_analysis", "summary"}
SummaryKeys == {"potential_monthly_savings", "clusters_needing_optimization",
                "total_clusters", "jobs_needing_optimization", "optimization_priority"}

\* C13: the report is always complete.  When the cluster analysis raises,
\* cluster_analysis is {'error': message}, job_analysis is still computed
\* from the jobs response and the summary has potential 0, total_clusters 0,
\* clusters_needing_optimization 0 and priority LOW; when the job analysis
\* raises, job_analysis is {'error': message}, jobs_needing_optimization is 0
\* and cluster_analysis is unaffected.
C13_PartialReports ==
    CostRan =>
        /\ DOMAIN report = ReportKeys
        /\ DOMAIN report.summary = SummaryKeys
        /\ (Fails(clusters_response) =>
              /\ report.cluster_analysis = [error |-> FailureMessage(clusters_response)]
              /\ report.summary.potential_monthly_savings = 0
              /\ report.summary.total_clusters = 0
              /\ report.summary.clusters_needing_optimization = 0
              /\ report.summary.optimization_priority = "LOW")
        /\ (Fails(jobs_response) =>
              /\ report.job_analysis = [error |-> FailureMessage(jobs_response)]
              /\ report.summary.jobs_needing_optimization = 0)
        /\ (~Fails(jobs_response) =>
              /\ ~Has(report.job_analysis, "error")
              /\ report.job_analysis.total_jobs = Len(Get(jobs_response.body, "jobs", <<>>))
              /\ report.summary.jobs_needing_optimization
                     = Len(report.job_analysis.inefficient_jobs))
        /\ (~Fails(clusters_response) =>
              /\ ~Has(report.cluster_analysis, "error")
              /\ report.cluster_analysis.total_clusters
                     = Len(fetched_clusters(clusters_response))
              /\ report.summary.total_clusters = report.cluster_analysis.total_clusters)

\* the cluster fetch raises while the jobs are fetched and analysed
C13_Witness ==
    /\ CostRan
    /\ clusters_response.kind = "raise"
    /\ Has(report.cluster_analysis, "error")
    /\ ~Fails(jobs_response)
    /\ report.job_analysis.total_jobs = 3
    /\ report.summary.jobs_needing_optimization = 2
    /\ report.summary.optimization_priority = "LOW"

-----------------------------------------------------------------------------
(* The xlarge entry of base_cost_per_hour, under SpecCluster *)

\* the lower-cased node type of the cluster names xlarge
NamesXlarge == Contains(<<"x","l","a","r","g","e">>, lower(Get(cluster, "node_type_id", <<>>)))

\* the estimate per node (workers and driver) and month, in dollars
NodeCount == Get(cluster, "num_workers", 0) + 1

\* C14: the xlarge rate 4.0 is never selected: 'large' comes first in the
\* table and is part of 'xlarge', so a node type naming xlarge is classified
\* by small, medium or large and gets at most 2.0; the only rates that result
\* are 0.5, 1.0, 2.0 and 8.0.
C14_XlargeRateUnused ==
    Estimated =>
        /\ \E half_dollars \in {1, 2, 4, 16} : savings = half_dollars * NodeCount * 108
        /\ savings # 8 * NodeCount * 108
        /\ (NamesXlarge => savings <= 4 * NodeCount * 108)

\* an xlarge node type, in upper case, estimated at the large rate 2.0
C14_Witness ==
    /\ Estimated
    /\ NamesXlarge
    /\ Has(cluster, "node_type_id")
    /\ cluster["node_type_id"] = <<"r","5",".","2","X","L","A","R","G","E">>
    /\ Has(cluster, "num_workers") /\ cluster["num_workers"] = 9
    /\ savings = 4320

====
